---- MODULE Spec2Model ----
(***************************************************************************)
(* Model of ytplaylist (src/ytplaylist/download.py): the playlist merge,   *)
(* the metadata resolver, the raw-file locator and downloader, the symlink *)
(* directory synchroniser, the playlist emitter and the JSON database.     *)
(*                                                                         *)
(* Strings are tuples of one-character strings, so that the string         *)
(* functions of the code (basename, split, removeprefix, the regular       *)
(* expression of id_from_path) are computed character by character.        *)
(***************************************************************************)
EXTENDS Integers, Sequences, FiniteSets, TLC

VARIABLES
    \* ---- merge (main, lines 438-457)
    playlist_file,      \* the M3U file at args.playlist: sequence of lines, or NoFile
    playlist_overwrite, \* args.playlist_overwrite
    remote,             \* what youtube_get_ids yields for each of args.playlists
    rpos,               \* position of the chained generator: <<playlist, item>>
    playlist_vids,      \* the list being built
    initial_vids,       \* history: playlist_vids as read from the file (E)
    merge_pc,
    \* ---- database round trip (VideoInfo.export_db / VideoInfo.from_local)
    db_rec, db_json, db_back, db_pc,
    \* ---- symlink directory synchroniser (create_symlinks_locale)
    sync_videos,        \* the mapping VideoInfo -> raw path, in insertion order
    sync_locale,        \* the locale argument, or None
    sync_dir,           \* the directory dst
    sync_before,        \* history: dst when the last call started
    sync_last,          \* history: what the last call did
    sync_retitled,      \* history: the entry whose record changed, before the change
    sync_pc,
    \* ---- one run of main, from "Get video info" on
    vids,               \* playlist_vids after the merge
    local_db,           \* the list read from the database
    has_local_db,       \* args.local_db is given
    update_all,         \* args.update_all
    update_db,          \* args.update_db
    args_locale,        \* args.locale
    idx,                \* position of the running loop
    vid_path,           \* the dict VideoInfo -> path, in insertion order
    resolved,           \* history: what each iteration of the resolver did
    raw,                \* the regular files of output_raw: [name, content]
    raw_isdir,          \* output_raw exists
    lost,               \* history: files of output_raw that were overwritten
    dl_log,             \* history: what the download loop did for each entry
    dl_runs,            \* history: what the downloader did each time it was called
    outdirs,            \* the directories of chain((None,), args.locale)
    sync_log,           \* history: the calls of create_symlinks_locale
    m3u,                \* the playlist written, or NoFile
    m3u_args,           \* history: the arguments m3u_create got
    db_written,         \* the database file written by the run: [exists, items]
    run_pc,
    abort_cause         \* the exception main ended with

mergeVars == <<playlist_file, playlist_overwrite, remote, rpos, playlist_vids,
               initial_vids, merge_pc>>
dbVars == <<db_rec, db_json, db_back, db_pc>>
syncVars == <<sync_videos, sync_locale, sync_dir, sync_before, sync_last,
              sync_retitled, sync_pc>>
runVars == <<vids, local_db, has_local_db, update_all, update_db, args_locale, idx, vid_path,
             resolved, raw, raw_isdir, lost, dl_log, dl_runs, outdirs, sync_log, m3u,
             m3u_args, db_written, run_pc, abort_cause>>
vars == <<mergeVars, dbVars, syncVars, runVars>>

-----------------------------------------------------------------------------
(* Bounds of the model *)

\* lines of the existing playlist file
MaxLines == 2
\* remote playlists on the command line
MaxPlaylists == 2
\* items of one remote playlist
MaxPlaylistLen == 2
\* entries of the mapping handed to the synchroniser
MaxVideos == 2
\* entries already in the symlink directory
MaxDirEntries == 2
\* identifiers of the merged playlist of a run
MaxVids == 2
\* records of the database a run reads
MaxDb == 1

-----------------------------------------------------------------------------
(* Strings *)

\* Python's None where a string is expected
None == <<"<None>">>

Lower == {"a","b","c","d","e","f","g","h","i","j","k","l","m",
          "n","o","p","q","r","s","t","u","v","w","x","y","z"}
Upper == {"A","B","C","D","E","F","G","H","I","J","K","L","M",
          "N","O","P","Q","R","S","T","U","V","W","X","Y","Z"}
Digit == {"0","1","2","3","4","5","6","7","8","9"}

\* [A-Za-z0-9_\-]
IdChar == Lower \cup Upper \cup Digit \cup {"_", "-"}
\* [a-z0-9]
ExtChar == Lower \cup Digit
\* {8,} in the expression of id_from_path
MinIdLen == 8

Range(s) == {s[i] : i \in DOMAIN s}

\* s[from:] of Python, 1-based
Tail_(s, from) == SubSeq(s, from, Len(s))

\* index of the last c in s, 0 if none
LastIndex(s, c) ==
    LET I == {i \in DOMAIN s : s[i] = c}
    IN IF I = {} THEN 0 ELSE CHOOSE i \in I : \A j \in I : j <= i

\* index of the first c in s, Len(s)+1 if none
FirstIndex(s, c) ==
    LET I == {i \in DOMAIN s : s[i] = c}
    IN IF I = {} THEN Len(s) + 1 ELSE CHOOSE i \in I : \A j \in I : i <= j

\* os.path.basename
basename(p) == Tail_(p, LastIndex(p, "/") + 1)

\* the mutant keeps the extension
SplitDot0_keeps_ext(s) == s

\* s.split('.')[0]
SplitDot0(s) == SubSeq(s, 1, FirstIndex(s, ".") - 1)

\* s.count('.')
CountDot(s) == Cardinality({i \in DOMAIN s : s[i] = "."})

\* s.removeprefix(p)
removeprefix(s, p) ==
    IF Len(s) >= Len(p) /\ SubSeq(s, 1, Len(p)) = p
    THEN Tail_(s, Len(p) + 1) ELSE s

\* the percent escapes the model's strings use: "%XY" -> character
HexPairs == {<<"2","D">>, <<"5","F">>, <<"2","0">>, <<"2","5">>}
UnHex(h) ==
    CASE h = <<"2","D">> -> "-"
      [] h = <<"5","F">> -> "_"
      [] h = <<"2","0">> -> " "
      [] h = <<"2","5">> -> "%"

\* urllib.parse.unquote, on strings whose escapes are among HexPairs
RECURSIVE unquote(_)
unquote(s) ==
    IF s = <<>> THEN <<>>
    ELSE IF s[1] = "%" /\ Len(s) >= 3 /\ <<s[2], s[3]>> \in HexPairs
         THEN <<UnHex(<<s[2], s[3]>>)>> \o unquote(Tail_(s, 4))
         ELSE <<s[1]>> \o unquote(Tail_(s, 2))

\* length of the longest prefix of s made of IdChar
IdPrefixLen(s) ==
    LET N == {n \in 0..Len(s) : \A i \in 1..n : s[i] \in IdChar}
    IN CHOOSE n \in N : \A m \in N : m <= n

\* id_from_path on the name of a regular file: re.match of
\* ([A-Za-z0-9_\-]{8,})\.[a-z0-9]{1,4} against the base name
id_from_path(file) ==
    LET b == basename(file)
        n == IdPrefixLen(b)
    IN IF n >= MinIdLen /\ Len(b) >= n + 2 /\ b[n + 1] = "." /\ b[n + 2] \in ExtChar
       THEN SubSeq(b, 1, n) ELSE None

-----------------------------------------------------------------------------
(* Identifiers, titles, extensions of the model *)

idA == <<"a","B","c","_","1","2","-","z">>
idB == <<"Q","w","9","x","Y","z","0","0","k">>
\* an identifier shorter than MinIdLen
idShort == <<"s","h","o","r","t">>
Ids == {idA, idB, idShort}
idC == <<"c","c","c","c","c","c","c","c","c","c","c">>
idGone == <<"g","o","n","e","g","o","n","e">>

mp4 == <<"m","p","4">>
Dot == <<".">>
NL == <<"\n">>

titleFoo == <<"F","o","o">>
titleBar == <<"B","a","r">>
titleSlash == <<"a","/","b">>

en == <<"e","n">>
fr == <<"f","r">>

-----------------------------------------------------------------------------
(* VideoInfo *)

\* datetime.timedelta keeps days and seconds apart, seconds in 0..86399
SecondsPerDay == 86400
timedelta(secs) == [days |-> secs \div SecondsPerDay, seconds |-> secs % SecondsPerDay]

VideoInfo(vid, duration, title, locale_title, missing) ==
    [vid |-> vid, duration |-> duration, title |-> title,
     locale_title |-> locale_title, missing |-> missing]

\* VideoInfo.__eq__ / __hash__: by vid alone
VideoEq(a, b) == a.vid = b.vid

\* VideoInfo.title
title_of(v, locale) ==
    IF locale = None THEN v.title
    ELSE IF \E p \in v.locale_title : p[1] = locale
         THEN (CHOOSE p \in v.locale_title : p[1] = locale)[2]
         ELSE v.title

\* VideoInfo.export_db
export_db(v) ==
    [id |-> v.vid,
     duration |-> v.duration.seconds,
     title |-> v.title,
     locale |-> [l \in {p[1] : p \in v.locale_title} |->
                    (CHOOSE p \in v.locale_title : p[1] = l)[2]]]

\* VideoInfo.from_local
from_local(item) ==
    VideoInfo(item.id, timedelta(item.duration), item.title,
              {<<l, item.locale[l]>> : l \in DOMAIN item.locale}, FALSE)

\* VideoInfo.from_missing
from_missing(vid) == VideoInfo(vid, timedelta(0), vid, {}, TRUE)

-----------------------------------------------------------------------------
(* Database round trip *)

Durations == {0, 125, 86399, 86400, 86525}
LocaleMaps == {{}, {<<en, titleBar>>}, {<<fr, titleFoo>>},
               {<<en, titleFoo>>, <<fr, titleSlash>>}}

\* the records that are not placeholders
Records ==
    {VideoInfo(i, timedelta(d), t, lt, FALSE) :
        i \in Ids, d \in Durations, t \in {titleFoo, titleSlash}, lt \in LocaleMaps}

NoJson == [id |-> None, duration |-> 0, title |-> None, locale |-> <<>>]

\* json.dump([k.export_db() ...])
ExportDb ==
    /\ db_pc = "record"
    /\ db_json' = export_db(db_rec)
    /\ db_pc' = "exported"
    /\ UNCHANGED <<db_rec, db_back, mergeVars, syncVars, runVars>>

\* read_db: [VideoInfo.from_local(k) for k in json_db]
ReadDb ==
    /\ db_pc = "exported"
    /\ db_back' = from_local(db_json)
    /\ db_pc' = "loaded"
    /\ UNCHANGED <<db_rec, db_json, mergeVars, syncVars, runVars>>

-----------------------------------------------------------------------------
(* Existing playlist and merge *)

NoFile == <<None>>
NoDbFile == [exists |-> FALSE, items |-> <<>>]

\* lines an existing playlist file is made of
PlaylistLines ==
    { <<"#","E","X","T","M","3","U">> \o NL,
      <<"r","/">> \o idA \o Dot \o mp4 \o NL,
      <<"r","/">> \o idB \o Dot \o mp4 \o NL,
      \* idA with its "-" and "_" percent-escaped
      <<"a","B","c","%","5","F","1","2","%","2","D","z">> \o Dot \o mp4 \o NL,
      idShort \o Dot \o mp4 \o NL }

RECURSIVE SeqsUpTo(_, _)
SeqsUpTo(S, n) ==
    IF n = 0 THEN {<<>>}
    ELSE LET P == SeqsUpTo(S, n - 1)
         IN P \cup {Append(s, x) : s \in {q \in P : Len(q) = n - 1}, x \in S}

\* m3u_get_ids
RECURSIVE m3u_get_ids(_, _)
m3u_get_ids(stream, url) ==
    IF stream = <<>> THEN <<>>
    ELSE LET line == Head(stream)
             vid == SplitDot0(basename(line))
         IN IF line[1] = "#" THEN m3u_get_ids(Tail(stream), url)
            ELSE <<IF url THEN unquote(vid) ELSE vid>> \o m3u_get_ids(Tail(stream), url)

\* the concatenation of a sequence of strings: the text of a stream after
\* the writes, the chain of the remote playlists
RECURSIVE Flatten(_)
Flatten(ss) == IF ss = <<>> THEN <<>> ELSE Head(ss) \o Flatten(Tail(ss))

\* "for line in stream": the lines of a text, each with its newline (the
\* last one without, when the text does not end with a newline)
RECURSIVE readlines(_)
readlines(text) ==
    IF text = <<>> THEN <<>>
    ELSE LET k == FirstIndex(text, "\n")
         IN IF k > Len(text) THEN <<text>>
            ELSE <<SubSeq(text, 1, k)>> \o readlines(Tail_(text, k + 1))

\* the mutant appends whatever the remote yields
merge_item_nocheck(lst, vid) == Append(lst, vid)

\* the mutant only skips an identifier that repeats the one just appended
merge_item_consecutive(lst, vid) ==
    IF lst # <<>> /\ lst[Len(lst)] = vid THEN lst ELSE Append(lst, vid)

\* one item of the generator handed to playlist_vids.extend: the list grows
\* while the generator runs, so the test sees the items appended before
merge_item(lst, vid) == IF vid \in Range(lst) THEN lst ELSE Append(lst, vid)

\* main, "Read local playlist": args.playlist_fmt is a non-empty string, so
\* the url argument of m3u_get_ids is always true
ReadPlaylist ==
    /\ merge_pc = "read"
    /\ LET parsed == IF ~playlist_overwrite /\ playlist_file # NoFile
                     THEN m3u_get_ids(playlist_file, TRUE) ELSE <<>>
       IN /\ playlist_vids' = parsed
          /\ initial_vids' = parsed
    /\ merge_pc' = "extend"
    /\ UNCHANGED <<playlist_file, playlist_overwrite, remote, rpos, dbVars, syncVars, runVars>>

\* the chained generator yields the next identifier of the current playlist
MergeItem ==
    /\ merge_pc = "extend"
    /\ rpos[1] <= Len(remote)
    /\ rpos[2] <= Len(remote[rpos[1]])
    /\ playlist_vids' = merge_item(playlist_vids, remote[rpos[1]][rpos[2]])
    /\ rpos' = <<rpos[1], rpos[2] + 1>>
    /\ UNCHANGED <<playlist_file, playlist_overwrite, remote, initial_vids,
                   merge_pc, dbVars, syncVars, runVars>>

\* youtube_get_ids of the current playlist is exhausted: chain to the next
MergeNextPlaylist ==
    /\ merge_pc = "extend"
    /\ rpos[1] <= Len(remote)
    /\ rpos[2] > Len(remote[rpos[1]])
    /\ rpos' = <<rpos[1] + 1, 1>>
    /\ UNCHANGED <<playlist_file, playlist_overwrite, remote, playlist_vids,
                   initial_vids, merge_pc, dbVars, syncVars, runVars>>

\* youtube_get_ids raises when a request fails: main ends with the exception
MergeRequestFails ==
    /\ merge_pc = "extend"
    /\ rpos[1] <= Len(remote)
    /\ merge_pc' = "aborted"
    /\ UNCHANGED <<playlist_file, playlist_overwrite, remote, rpos, playlist_vids,
                   initial_vids, dbVars, syncVars, runVars>>

MergeDone ==
    /\ merge_pc = "extend"
    /\ rpos[1] > Len(remote)
    /\ merge_pc' = "merged"
    /\ UNCHANGED <<playlist_file, playlist_overwrite, remote, rpos, playlist_vids,
                   initial_vids, dbVars, syncVars, runVars>>

-----------------------------------------------------------------------------
(* Directories and create_symlinks_locale *)

\* sanitize_name: every '/' becomes U+2215 DIVISION SLASH, one character
DivisionSlash == "U+2215"
RECURSIVE sanitize_name(_)
sanitize_name(name) ==
    IF name = <<>> THEN <<>>
    ELSE <<IF name[1] = "/" THEN DivisionSlash ELSE name[1]>> \o sanitize_name(Tail(name))

\* the raw-storage directory, and the path of a file in it
OutputRaw == <<"/","m","/","r"," ","w">>
RawPath(name) == OutputRaw \o <<"/">> \o name
RawName(vid) == vid \o Dot \o mp4

\* A directory is [isdir, ents]: ents is the set of its entries, one per
\* name. A link carries the path it resolves to (os.path.realpath).
Link(name, target) == [name |-> name, kind |-> "link", target |-> target]
RegularFile(name) == [name |-> name, kind |-> "file", target |-> None]
Directory(name) == [name |-> name, kind |-> "dir", target |-> None]
NoDir == [isdir |-> FALSE, ents |-> {}]

Names(ents) == {e.name : e \in ents}
Unlink(ents, names) == {e \in ents : e.name \notin names}
\* os.path.islink
islink(ents, name) == \E e \in ents : e.name = name /\ e.kind = "link"

\* find_video_link: the links of the directory that resolve to the regular
\* file target
find_video_link(ents, target, rawpaths) ==
    {e.name : e \in {x \in ents : /\ x.kind = "link"
                                  /\ x.target \in rawpaths
                                  /\ x.target = target}}

\* "Check dst directory content": what the first loop logs
audit_nonvalid(ents) ==
    {e.name : e \in {x \in ents : x.kind # "link" \/ id_from_path(x.target) = None}}
audit_dead(ents, rawpaths) ==
    {e.name : e \in {x \in ents : /\ x.kind = "link"
                                  /\ id_from_path(x.target) # None
                                  /\ x.target \notin rawpaths}}

\* title_filename of an entry
pretty_name(vidinfo, raw_path, locale) ==
    LET ext == removeprefix(basename(raw_path), vidinfo.vid \o Dot)
    IN sanitize_name(title_of(vidinfo, locale)) \o Dot \o ext

\* one iteration of "for vidinfo, raw_path in videos.items()"
sync_entry(item, st, locale, rawpaths) ==
    LET raw_path == item.path
        title_filename == pretty_name(item.info, raw_path, locale)
        links == find_video_link(st.ents, raw_path, rawpaths)
        found == title_filename \in links
        stale == links \ {title_filename}
        ents1 == Unlink(st.ents, stale)
        occupied == islink(ents1, title_filename)
        ents2 == IF occupied THEN Unlink(ents1, {title_filename}) ELSE ents1
        st1 == [st EXCEPT !.ents = ents1,
                          !.nunlink = @ + Cardinality(stale),
                          !.unlinked = @ \cup stale]
        st2 == [st1 EXCEPT !.ents = ents2,
                           !.nunlink = @ + (IF occupied THEN 1 ELSE 0),
                           !.unlinked = @ \cup (IF occupied THEN {title_filename} ELSE {})]
    IN IF raw_path = None THEN st
       ELSE IF found THEN st1
       \* os.symlink raises FileExistsError when the name is still taken
       ELSE IF title_filename \in Names(ents2) THEN [st2 EXCEPT !.raised = TRUE]
       ELSE [st2 EXCEPT !.ents = @ \cup {Link(title_filename, raw_path)},
                        !.ncreate = @ + 1,
                        !.created = @ \cup {title_filename}]

RECURSIVE sync_loop(_, _, _, _)
sync_loop(videos, st, locale, rawpaths) ==
    IF videos = <<>> \/ st.raised THEN st
    ELSE sync_loop(Tail(videos), sync_entry(Head(videos), st, locale, rawpaths),
                   locale, rawpaths)

\* create_symlinks_locale(videos, dst, locale): the directory it leaves and
\* the calls it made
create_symlinks_locale(videos, dst, locale, rawpaths) ==
    LET ents0 == IF dst.isdir THEN dst.ents ELSE {}
    IN sync_loop(videos,
                 [ents |-> ents0, mkdir |-> ~dst.isdir,
                  nunlink |-> 0, unlinked |-> {}, ncreate |-> 0, created |-> {},
                  raised |-> FALSE,
                  nonvalid |-> audit_nonvalid(ents0),
                  dead |-> audit_dead(ents0, rawpaths)],
                 locale, rawpaths)

NoCall == [ents |-> {}, mkdir |-> FALSE, nunlink |-> 0, unlinked |-> {},
           ncreate |-> 0, created |-> {}, raised |-> FALSE,
           nonvalid |-> {}, dead |-> {}]

\* ---- the synchroniser on its own

SyncIds == {idA, idB, idC}
\* the regular files of the raw directory
SyncRawPaths == {RawPath(RawName(i)) : i \in SyncIds}

\* the records an identifier may have
SyncInfos(vid) ==
    { VideoInfo(vid, timedelta(125), titleFoo, {}, FALSE),
      VideoInfo(vid, timedelta(125), titleBar, {}, FALSE),
      VideoInfo(vid, timedelta(125), titleFoo, {<<en, titleSlash>>}, FALSE) }

Item(info, raw_path) == [info |-> info, path |-> raw_path]
SyncItems ==
    {Item(info, p) : info \in UNION {SyncInfos(i) : i \in SyncIds},
                     p \in {None} \cup SyncRawPaths}

\* the mappings main can build: one entry per identifier, the path of an
\* entry is None or the raw file found for its identifier
RECURSIVE Mappings(_)
Mappings(n) ==
    IF n = 0 THEN {<<>>}
    ELSE LET P == Mappings(n - 1)
         IN P \cup {Append(m, it) :
                      m \in {q \in P : Len(q) = n - 1},
                      it \in {x \in SyncItems :
                                 x.path \in {None, RawPath(RawName(x.info.vid))}}}

DistinctKeys(m) == \A i, j \in DOMAIN m : i # j => m[i].info.vid # m[j].info.vid

\* what a directory may hold before the call
DirNames == {titleFoo \o Dot \o mp4, titleBar \o Dot \o mp4}
DirEntries ==
    UNION {{RegularFile(n), Directory(n)} \cup
           {Link(n, t) : t \in SyncRawPaths \cup {RawPath(RawName(idGone))}} : n \in DirNames}
DirStates ==
    {NoDir} \cup
    {[isdir |-> TRUE, ents |-> E] :
        E \in {X \in SUBSET DirEntries :
                  /\ Cardinality(X) <= MaxDirEntries
                  /\ Cardinality(Names(X)) = Cardinality(X)}}

\* one call of create_symlinks_locale(videos, dst, locale)
SyncCall ==
    /\ sync_pc \in {"fresh", "synced", "retitled"}
    /\ LET st == create_symlinks_locale(sync_videos, sync_dir, sync_locale, SyncRawPaths)
       IN /\ sync_last' = st
          /\ sync_dir' = [isdir |-> TRUE, ents |-> st.ents]
    /\ sync_before' = sync_dir
    /\ sync_pc' = CASE sync_pc = "fresh" -> "synced"
                    [] sync_pc = "synced" -> "resynced"
                    [] sync_pc = "retitled" -> "renamed"
    /\ UNCHANGED <<sync_videos, sync_locale, sync_retitled, mergeVars, dbVars, runVars>>

\* between two runs the metadata of one record changes its title: the next
\* run's mapping holds the new record at the same place
Retitle ==
    /\ sync_pc = "synced"
    /\ ~sync_last.raised
    /\ \E i \in DOMAIN sync_videos :
       \E new \in SyncInfos(sync_videos[i].info.vid) :
          /\ title_of(new, sync_locale) # title_of(sync_videos[i].info, sync_locale)
          /\ sync_videos' = [sync_videos EXCEPT ![i].info = new]
          /\ sync_retitled' = sync_videos[i]
    /\ sync_pc' = "retitled"
    /\ UNCHANGED <<sync_locale, sync_dir, sync_before, sync_last, mergeVars, dbVars, runVars>>

-----------------------------------------------------------------------------
(* m3u_create *)

DigitChars == <<"0","1","2","3","4","5","6","7","8","9">>
\* str(n) of a non-negative integer
RECURSIVE ToDecimal(_)
ToDecimal(n) ==
    IF n < 10 THEN <<DigitChars[n + 1]>>
    ELSE ToDecimal(n \div 10) \o <<DigitChars[(n % 10) + 1]>>

\* urllib.parse.quote: the characters it leaves alone
QuoteSafe == IdChar \cup {".", "~", "/"}
QuoteHex(c) ==
    CASE c = " " -> <<"%","2","0">>
      [] c = "%" -> <<"%","2","5">>
RECURSIVE quote(_)
quote(s) ==
    IF s = <<>> THEN <<>>
    ELSE (IF s[1] \in QuoteSafe THEN <<s[1]>> ELSE QuoteHex(s[1])) \o quote(Tail(s))

\* p.split('/') without the empty components
RECURSIVE SplitSlash(_)
SplitSlash(p) ==
    IF p = <<>> THEN <<>>
    ELSE LET k == FirstIndex(p, "/")
             head == SubSeq(p, 1, k - 1)
             rest == SplitSlash(Tail_(p, k + 1))
         IN IF head = <<>> THEN rest ELSE <<head>> \o rest

RECURSIVE JoinSlash(_)
JoinSlash(parts) ==
    IF parts = <<>> THEN <<>>
    ELSE IF Len(parts) = 1 THEN parts[1]
    ELSE parts[1] \o <<"/">> \o JoinSlash(Tail(parts))

RECURSIVE CommonPrefixLen(_, _)
CommonPrefixLen(a, b) ==
    IF a = <<>> \/ b = <<>> \/ a[1] # b[1] THEN 0
    ELSE 1 + CommonPrefixLen(Tail(a), Tail(b))

\* os.path.relpath of two absolute paths
relpath(p, start) ==
    LET a == SplitSlash(start)
        b == SplitSlash(p)
        k == CommonPrefixLen(a, b)
        rel == [i \in 1..(Len(a) - k) |-> <<".",".">>] \o Tail_(b, k + 1)
    IN IF rel = <<>> THEN <<".">> ELSE JoinSlash(rel)

\* os.path.abspath of an absolute path without '.' or '..'
abspath(p) == <<"/">> \o JoinSlash(SplitSlash(p))

ExtM3U == <<"#","E","X","T","M","3","U">> \o NL
ExtInf == <<"#","E","X","T","I","N","F",":">>

\* the mutant ignores the base path
m3u_item_always_abs(item, url, basepath, locale) ==
    LET p1 == abspath(item.path)
        p2 == IF url THEN quote(p1) ELSE p1
    IN IF item.path = None THEN <<>>
       ELSE << ExtInf \o ToDecimal(item.info.duration.seconds) \o <<",">>
                  \o title_of(item.info, locale) \o NL,
               p2 \o NL >>

\* the mutant forgets to skip the items without a path
m3u_item_keeps_none(item, url, basepath, locale) ==
    LET p1 == IF basepath = None THEN abspath(item.path)
              ELSE relpath(item.path, basepath)
        p2 == IF url THEN quote(p1) ELSE p1
    IN << ExtInf \o ToDecimal(item.info.duration.seconds) \o <<",">>
             \o title_of(item.info, locale) \o NL,
          p2 \o NL >>

\* the lines m3u_create writes for one item of the mapping
m3u_item(item, url, basepath, locale) ==
    LET p1 == IF basepath = None THEN abspath(item.path)
              ELSE relpath(item.path, basepath)
        p2 == IF url THEN quote(p1) ELSE p1
    IN IF item.path = None THEN <<>>
       ELSE << ExtInf \o ToDecimal(item.info.duration.seconds) \o <<",">>
                  \o title_of(item.info, locale) \o NL,
               p2 \o NL >>

RECURSIVE m3u_items(_, _, _, _)
m3u_items(items, url, basepath, locale) ==
    IF items = <<>> THEN <<>>
    ELSE m3u_item(Head(items), url, basepath, locale)
            \o m3u_items(Tail(items), url, basepath, locale)

\* m3u_create: what is written to the stream
m3u_create(items, url, basepath, locale) ==
    <<ExtM3U>> \o m3u_items(items, url, basepath, locale)

-----------------------------------------------------------------------------
(* One run of main *)

\* the mutant never finds a record in the database
in_db_never(db, vid) == FALSE

\* `vidinfo in local_db` and local_db.index(vidinfo): equality is by vid
in_db(db, vid) == \E j \in DOMAIN db : db[j].vid = vid
db_index(db, vid) ==
    CHOOSE j \in DOMAIN db : db[j].vid = vid /\ \A k \in DOMAIN db : db[k].vid = vid => j <= k

\* the record the resolver starts from: lines 463-468
db_lookup(db, vid) == IF in_db(db, vid) THEN db[db_index(db, vid)] ELSE from_missing(vid)

\* the mutant forgets update-all
needs_lookup_missing_only(vidinfo, upd_all) == vidinfo.missing

\* `if vidinfo.missing or args.update_all`
needs_lookup(vidinfo, upd_all) == vidinfo.missing \/ upd_all

\* VideoInfo.from_youtube raised
LookupFailed == from_missing(None)
\* what VideoInfo.from_youtube may return for an identifier
RemoteRecords(vid) ==
    {VideoInfo(vid, timedelta(86525), titleBar, {<<en, titleSlash>>}, FALSE)}

\* the record of lines 470-475: the answer replaces the working record
\* unless from_youtube raised
resolve_record(base, attempted, answer) ==
    IF attempted /\ answer # LookupFailed THEN answer ELSE base

\* vid_path[vidinfo] = value: a dict keeps the key it already has
dict_set(d, key, value) ==
    IF \E j \in DOMAIN d : VideoEq(d[j].info, key)
    THEN [j \in DOMAIN d |-> IF VideoEq(d[j].info, key) THEN Item(d[j].info, value) ELSE d[j]]
    ELSE Append(d, Item(key, value))

\* find_video_raw: the regular files of output_raw whose name decodes to vid
find_video_raw(files, vid) ==
    {RawPath(e.name) : e \in {x \in files : id_from_path(RawPath(x.name)) = vid}}

\* what the external downloader may do when asked for vid
DownloaderRuns(vid) ==
    { [exe |-> FALSE, exit |-> 0, files |-> {}],
      [exe |-> TRUE, exit |-> 1, files |-> {}],
      [exe |-> TRUE, exit |-> 0, files |-> {}],
      [exe |-> TRUE, exit |-> 0, files |-> {vid \o Dot \o mp4}],
      [exe |-> TRUE, exit |-> 0, files |-> {vid \o <<".","f","1">> \o Dot \o mp4}] }

\* the files youtube_dl may pick: "path.basename(file).count('.') == 1"
primary_files(files) == {f \in files : CountDot(f) = 1}

\* shutil.move(file, new_name) into output_raw
move_into(files, name) == {e \in files : e.name # name} \cup {[name |-> name, content |-> "new"]}

\* the database after the loop of lines 542-548
RECURSIVE update_local_db(_, _, _)
update_local_db(db, items, upd_all) ==
    IF items = <<>> THEN db
    ELSE LET vidinfo == Head(items).info
             db1 == IF vidinfo.missing THEN db
                    ELSE IF ~in_db(db, vidinfo.vid) THEN Append(db, vidinfo)
                    ELSE IF upd_all THEN [db EXCEPT ![db_index(db, vidinfo.vid)] = vidinfo]
                    ELSE db
         IN update_local_db(db1, Tail(items), upd_all)

\* the arguments of the playlist: args.playlist given or not, args.playlist_fmt
\* == 'vlc', None or the directory of args.playlist, args.playlist_locale
NoPlaylistArgs == [given |-> FALSE, url |-> FALSE, basepath |-> None, locale |-> None]
PlaylistArgs ==
    {NoPlaylistArgs} \cup
    {[given |-> TRUE, url |-> vlc, basepath |-> b, locale |-> IF vlc THEN en ELSE None] :
        vlc \in BOOLEAN, b \in {None, <<"/","m">>, <<"/","m","/","p">>}}

DbRecords == {VideoInfo(i, timedelta(125), titleFoo, {}, FALSE) : i \in {idA, idShort}}

RunRawFiles == {[name |-> RawName(i), content |-> "old"] : i \in {idA, idShort}}

\* the output directory before the run: absent, or left by earlier runs with
\* a link to a raw file and a regular file
RunOutDirs ==
    { NoDir,
      [isdir |-> TRUE, ents |-> {Link(titleBar \o Dot \o mp4, RawPath(RawName(idA))),
                                 RegularFile(titleFoo \o Dot \o mp4)}] }

Abort(cause) == run_pc' = "aborted" /\ abort_cause' = cause

\* one iteration of "for vid in playlist_vids" (lines 462-479)
Resolve ==
    /\ run_pc = "resolve"
    /\ idx <= Len(vids)
    /\ LET vid == vids[idx]
           base == db_lookup(local_db, vid)
           attempted == needs_lookup(base, update_all)
       IN \E answer \in IF attempted THEN {LookupFailed} \cup RemoteRecords(vid)
                        ELSE {LookupFailed} :
            LET vidinfo == resolve_record(base, attempted, answer)
            IN /\ vid_path' = dict_set(vid_path, vidinfo, None)
               /\ resolved' = Append(resolved,
                                     [vid |-> vid, attempted |-> attempted,
                                      ok |-> attempted /\ answer # LookupFailed,
                                      answer |-> answer, info |-> vidinfo])
    /\ idx' = idx + 1
    /\ UNCHANGED <<vids, local_db, has_local_db, update_all, update_db, args_locale,
                   raw, raw_isdir, lost, dl_log, dl_runs, outdirs, sync_log, m3u,
                   m3u_args, db_written, run_pc, abort_cause, mergeVars, dbVars, syncVars>>

ResolveEnd ==
    /\ run_pc = "resolve"
    /\ idx > Len(vids)
    /\ run_pc' = "download"
    /\ idx' = 1
    /\ UNCHANGED <<vids, local_db, has_local_db, update_all, update_db, args_locale,
                   vid_path, resolved, raw, raw_isdir, lost, dl_log, dl_runs, outdirs,
                   sync_log, m3u, m3u_args, db_written, abort_cause,
                   mergeVars, dbVars, syncVars>>

\* the entry of the download loop is done: its path is set, the loop goes on
EntryDone(file, outcome) ==
    /\ vid_path' = [vid_path EXCEPT ![idx].path = file]
    /\ dl_log' = Append(dl_log, outcome)
    /\ idx' = idx + 1
    /\ UNCHANGED <<run_pc, abort_cause>>

\* main ends with an exception raised in the download loop
DownloadAbort(cause) ==
    /\ Abort(cause)
    /\ UNCHANGED <<vid_path, dl_log, idx>>

\* the mutant lets the error of the downloader end main
DownloadFailedRaises == DownloadAbort("CalledProcessError")

\* "except subprocess.CalledProcessError": the error is logged and the loop
\* continues with the next entry, this one keeps its path
DownloadFailed == EntryDone(vid_path[idx].path, "failed")

\* one iteration of "for vidinfo in vid_path" (lines 498-515), youtube_dl
\* included
Download ==
    /\ run_pc = "download"
    /\ idx <= Len(vid_path)
    /\ LET vid == vid_path[idx].info.vid
           found == find_video_raw(raw, vid)
       IN IF ~raw_isdir
          \* os.listdir(output_raw) raises FileNotFoundError
          THEN DownloadAbort("FileNotFoundError") /\ UNCHANGED <<raw, lost, dl_runs>>
          ELSE IF found # {}
          THEN /\ \E file \in found : EntryDone(file, "found")
               /\ UNCHANGED <<raw, lost, dl_runs>>
          ELSE \E run \in DownloaderRuns(vid) :
                 /\ dl_runs' = Append(dl_runs, run)
                 /\ IF ~run.exe
                    THEN DownloadAbort("FileNotFoundError") /\ UNCHANGED <<raw, lost>>
                    ELSE IF run.exit # 0
                    THEN DownloadFailed /\ UNCHANGED <<raw, lost>>
                    ELSE IF primary_files(run.files) = {}
                    THEN DownloadAbort("Exception") /\ UNCHANGED <<raw, lost>>
                    ELSE \E file \in primary_files(run.files) :
                           LET raw2 == move_into(raw, file)
                               found2 == find_video_raw(raw2, vid)
                           IN /\ raw' = raw2
                              /\ lost' = lost \cup {e.name : e \in {x \in raw : x.name = file}}
                              /\ IF found2 = {}
                                 THEN DownloadAbort("Exception")
                                 ELSE \E p \in found2 : EntryDone(p, "downloaded")
    /\ UNCHANGED <<vids, local_db, has_local_db, update_all, update_db, args_locale,
                   resolved, raw_isdir, outdirs, sync_log, m3u, m3u_args, db_written,
                   mergeVars, dbVars, syncVars>>

DownloadEnd ==
    /\ run_pc = "download"
    /\ idx > Len(vid_path)
    /\ run_pc' = "sync"
    /\ idx' = 1
    /\ UNCHANGED <<vids, local_db, has_local_db, update_all, update_db, args_locale,
                   vid_path, resolved, raw, raw_isdir, lost, dl_log, dl_runs, outdirs,
                   sync_log, m3u, m3u_args, db_written, abort_cause,
                   mergeVars, dbVars, syncVars>>

\* one iteration of "for locale in itertools.chain((None,), args.locale)"
RunSync ==
    /\ run_pc = "sync"
    /\ idx <= 1 + Len(args_locale)
    /\ LET locale == IF idx = 1 THEN None ELSE args_locale[idx - 1]
           st == create_symlinks_locale(vid_path, outdirs[idx], locale,
                                        {RawPath(e.name) : e \in raw})
       IN /\ outdirs' = [outdirs EXCEPT ![idx] = [isdir |-> TRUE, ents |-> st.ents]]
          /\ sync_log' = Append(sync_log, st)
          /\ IF st.raised
             THEN Abort("FileExistsError") /\ UNCHANGED idx
             ELSE idx' = idx + 1 /\ UNCHANGED <<run_pc, abort_cause>>
    /\ UNCHANGED <<vids, local_db, has_local_db, update_all, update_db, args_locale,
                   vid_path, resolved, raw, raw_isdir, lost, dl_log, dl_runs, m3u, m3u_args,
                   db_written, mergeVars, dbVars, syncVars>>

SyncEnd ==
    /\ run_pc = "sync"
    /\ idx > 1 + Len(args_locale)
    /\ run_pc' = "emit"
    /\ UNCHANGED <<vids, local_db, has_local_db, update_all, update_db, args_locale,
                   idx, vid_path, resolved, raw, raw_isdir, lost, dl_log, dl_runs, outdirs,
                   sync_log, m3u, m3u_args, db_written, abort_cause,
                   mergeVars, dbVars, syncVars>>

\* "Create locale playlist" (lines 528-537)
Emit ==
    /\ run_pc = "emit"
    /\ \E a \in PlaylistArgs :
         /\ m3u' = IF a.given THEN m3u_create(vid_path, a.url, a.basepath, a.locale)
                   ELSE NoFile
         /\ m3u_args' = a
    /\ run_pc' = "updatedb"
    /\ UNCHANGED <<vids, local_db, has_local_db, update_all, update_db, args_locale,
                   idx, vid_path, resolved, raw, raw_isdir, lost, dl_log, dl_runs, outdirs,
                   sync_log, db_written, abort_cause, mergeVars, dbVars, syncVars>>

\* the next run, "Read local playlist" (lines 439-447), on the file this run
\* wrote: it exists, and the playlist is not to be overwritten
NextRunReads ==
    /\ run_pc = "done"
    /\ m3u_args.given
    /\ ~playlist_overwrite
    /\ merge_pc = "idle"
    /\ playlist_file' = readlines(Flatten(m3u))
    /\ playlist_vids' = m3u_get_ids(playlist_file', TRUE)
    /\ initial_vids' = playlist_vids'
    /\ merge_pc' = "extend"
    /\ UNCHANGED <<playlist_overwrite, remote, rpos, dbVars, syncVars, runVars>>

\* "Update db" (lines 540-550)
UpdateDb ==
    /\ run_pc = "updatedb"
    /\ IF update_db
       THEN /\ local_db' = update_local_db(local_db, vid_path, update_all)
            /\ IF has_local_db
               THEN /\ db_written' = [exists |-> TRUE,
                                     items |-> [j \in DOMAIN local_db' |-> export_db(local_db'[j])]]
                    /\ run_pc' = "done"
                    /\ UNCHANGED abort_cause
               \* open(None, 'w') raises TypeError
               ELSE Abort("TypeError") /\ UNCHANGED db_written
       ELSE /\ run_pc' = "done"
            /\ UNCHANGED <<local_db, db_written, abort_cause>>
    /\ UNCHANGED <<vids, has_local_db, update_all, update_db, args_locale, idx,
                   vid_path, resolved, raw, raw_isdir, lost, dl_log, dl_runs, outdirs,
                   sync_log, m3u, m3u_args, mergeVars, dbVars, syncVars>>

-----------------------------------------------------------------------------
(* Specifications *)

\* a run of main starts; the other parts of the model are idle
Init ==
    /\ vids \in SeqsUpTo(Ids, MaxVids)
    /\ has_local_db \in BOOLEAN
    /\ local_db \in IF has_local_db THEN SeqsUpTo(DbRecords, MaxDb) ELSE {<<>>}
    /\ update_all \in BOOLEAN
    /\ update_db \in BOOLEAN
    /\ args_locale \in {<<>>, <<en>>}
    /\ idx = 1
    /\ vid_path = <<>>
    /\ resolved = <<>>
    /\ raw_isdir \in BOOLEAN
    /\ raw \in IF raw_isdir THEN SUBSET RunRawFiles ELSE {{}}
    /\ lost = {}
    /\ dl_log = <<>>
    /\ dl_runs = <<>>
    /\ outdirs \in {<<d>> \o [i \in 1..Len(args_locale) |-> NoDir] : d \in RunOutDirs}
    /\ sync_log = <<>>
    /\ m3u = NoFile
    /\ m3u_args = NoPlaylistArgs
    /\ db_written = NoDbFile
    /\ run_pc = "resolve"
    /\ abort_cause = "none"
    /\ playlist_file = NoFile
    /\ playlist_overwrite = FALSE
    /\ remote = <<>>
    /\ rpos = <<1, 1>>
    /\ playlist_vids = <<>>
    /\ initial_vids = <<>>
    /\ merge_pc = "idle"
    /\ db_rec = from_missing(None)
    /\ db_json = NoJson
    /\ db_back = from_missing(None)
    /\ db_pc = "idle"
    /\ sync_videos = <<>>
    /\ sync_locale = None
    /\ sync_dir = NoDir
    /\ sync_before = NoDir
    /\ sync_last = NoCall
    /\ sync_retitled = Item(from_missing(None), None)
    /\ sync_pc = "idle"

\* the merge of main on its own
InitMerge ==
    /\ playlist_file \in {NoFile} \cup SeqsUpTo(PlaylistLines, MaxLines)
    /\ playlist_overwrite \in BOOLEAN
    /\ remote \in SeqsUpTo(SeqsUpTo(Ids, MaxPlaylistLen), MaxPlaylists) \ {<<>>}
    /\ rpos = <<1, 1>>
    /\ playlist_vids = <<>>
    /\ initial_vids = <<>>
    /\ merge_pc = "read"
    /\ db_rec = from_missing(None)
    /\ db_json = NoJson
    /\ db_back = from_missing(None)
    /\ db_pc = "idle"
    /\ sync_videos = <<>>
    /\ sync_locale = None
    /\ sync_dir = NoDir
    /\ sync_before = NoDir
    /\ sync_last = NoCall
    /\ sync_retitled = Item(from_missing(None), None)
    /\ sync_pc = "idle"
    /\ vids = <<>>
    /\ has_local_db = FALSE
    /\ local_db = <<>>
    /\ update_all = FALSE
    /\ update_db = FALSE
    /\ args_locale = <<>>
    /\ idx = 1
    /\ vid_path = <<>>
    /\ resolved = <<>>
    /\ raw_isdir = FALSE
    /\ raw = {}
    /\ lost = {}
    /\ dl_log = <<>>
    /\ dl_runs = <<>>
    /\ outdirs = <<NoDir>>
    /\ sync_log = <<>>
    /\ m3u = NoFile
    /\ m3u_args = NoPlaylistArgs
    /\ db_written = NoDbFile
    /\ run_pc = "idle"
    /\ abort_cause = "none"

\* one record through export_db and from_local
InitDb ==
    /\ db_rec \in Records
    /\ db_json = NoJson
    /\ db_back = from_missing(None)
    /\ db_pc = "record"
    /\ playlist_file = NoFile
    /\ playlist_overwrite = FALSE
    /\ remote = <<>>
    /\ rpos = <<1, 1>>
    /\ playlist_vids = <<>>
    /\ initial_vids = <<>>
    /\ merge_pc = "idle"
    /\ sync_videos = <<>>
    /\ sync_locale = None
    /\ sync_dir = NoDir
    /\ sync_before = NoDir
    /\ sync_last = NoCall
    /\ sync_retitled = Item(from_missing(None), None)
    /\ sync_pc = "idle"
    /\ vids = <<>>
    /\ has_local_db = FALSE
    /\ local_db = <<>>
    /\ update_all = FALSE
    /\ update_db = FALSE
    /\ args_locale = <<>>
    /\ idx = 1
    /\ vid_path = <<>>
    /\ resolved = <<>>
    /\ raw_isdir = FALSE
    /\ raw = {}
    /\ lost = {}
    /\ dl_log = <<>>
    /\ dl_runs = <<>>
    /\ outdirs = <<NoDir>>
    /\ sync_log = <<>>
    /\ m3u = NoFile
    /\ m3u_args = NoPlaylistArgs
    /\ db_written = NoDbFile
    /\ run_pc = "idle"
    /\ abort_cause = "none"

\* create_symlinks_locale on its own
InitSync ==
    /\ sync_videos \in {m \in Mappings(MaxVideos) : DistinctKeys(m)}
    /\ sync_locale \in {None, en}
    /\ sync_dir \in DirStates
    /\ sync_before = sync_dir
    /\ sync_last = NoCall
    /\ sync_retitled = Item(from_missing(None), None)
    /\ sync_pc = "fresh"
    /\ playlist_file = NoFile
    /\ playlist_overwrite = FALSE
    /\ remote = <<>>
    /\ rpos = <<1, 1>>
    /\ playlist_vids = <<>>
    /\ initial_vids = <<>>
    /\ merge_pc = "idle"
    /\ db_rec = from_missing(None)
    /\ db_json = NoJson
    /\ db_back = from_missing(None)
    /\ db_pc = "idle"
    /\ vids = <<>>
    /\ has_local_db = FALSE
    /\ local_db = <<>>
    /\ update_all = FALSE
    /\ update_db = FALSE
    /\ args_locale = <<>>
    /\ idx = 1
    /\ vid_path = <<>>
    /\ resolved = <<>>
    /\ raw_isdir = FALSE
    /\ raw = {}
    /\ lost = {}
    /\ dl_log = <<>>
    /\ dl_runs = <<>>
    /\ outdirs = <<NoDir>>
    /\ sync_log = <<>>
    /\ m3u = NoFile
    /\ m3u_args = NoPlaylistArgs
    /\ db_written = NoDbFile
    /\ run_pc = "idle"
    /\ abort_cause = "none"

Next ==
    \/ Resolve \/ ResolveEnd \/ Download \/ DownloadEnd
    \/ RunSync \/ SyncEnd \/ Emit \/ UpdateDb \/ NextRunReads
Spec == Init /\ [][Next]_vars

NextMerge == ReadPlaylist \/ MergeItem \/ MergeNextPlaylist \/ MergeRequestFails \/ MergeDone
SpecMerge == InitMerge /\ [][NextMerge]_vars

NextDb == ExportDb \/ ReadDb
SpecDb == InitDb /\ [][NextDb]_vars

NextSync == SyncCall \/ Retitle
SpecSync == InitSync /\ [][NextSync]_vars

-----------------------------------------------------------------------------
(* Properties of the merge *)

\* the remote stream R: the remote playlists, concatenated
RemoteStream == Flatten(remote)

\* the elements of R outside seen, each once, in order of first occurrence
RECURSIVE FirstSeen(_, _)
FirstSeen(R, seen) ==
    IF R = <<>> THEN <<>>
    ELSE IF Head(R) \in seen THEN FirstSeen(Tail(R), seen)
         ELSE <<Head(R)>> \o FirstSeen(Tail(R), seen \cup {Head(R)})

Count(s, x) == Cardinality({i \in DOMAIN s : s[i] = x})
HasRepeat(s) == \E i, j \in DOMAIN s : i < j /\ s[i] = s[j]

\* C2: the merged list is E verbatim, followed by exactly the elements of R
\* that are not in E, each once, in the order of their first occurrence in R.
C2_MergeOrder ==
    merge_pc = "merged" =>
        playlist_vids = initial_vids \o FirstSeen(RemoteStream, Range(initial_vids))

\* two remote playlists that share a new identifier, one of them repeating
\* it, merged after a non-empty existing list that holds another of R's items
C2_Witness ==
    /\ merge_pc = "merged"
    /\ initial_vids # <<>>
    /\ Len(remote) = 2
    /\ \E x \in Range(remote[1]) \cap Range(remote[2]) :
          /\ x \notin Range(initial_vids)
          /\ Count(RemoteStream, x) >= 3
    /\ \E y \in Range(RemoteStream) : y \in Range(initial_vids)
    /\ Len(playlist_vids) > Len(initial_vids)

\* C3 as stated: no identifier appears twice in the merged list, whatever E.
C3_MergeUnique == merge_pc = "merged" => ~HasRepeat(playlist_vids)

\* C3, amended: an identifier of E occurs in the merged list as often as in
\* E, every other identifier of R occurs exactly once, and nothing else
\* occurs; so the merged list repeats an identifier only where E does.
C3_MergeUniqueBeyondE ==
    merge_pc = "merged" =>
        /\ \A x \in Range(playlist_vids) \cup Range(initial_vids) \cup Range(RemoteStream) :
              Count(playlist_vids, x) =
                  IF x \in Range(initial_vids) THEN Count(initial_vids, x) ELSE 1
        /\ (~HasRepeat(initial_vids) => ~HasRepeat(playlist_vids))

\* an existing list that repeats an identifier, merged with a remote stream
\* that repeats a new one and also yields the repeated one
C3_Witness ==
    /\ merge_pc = "merged"
    /\ HasRepeat(initial_vids)
    /\ \E x \in Range(RemoteStream) :
          x \notin Range(initial_vids) /\ Count(RemoteStream, x) >= 2
    /\ \E y \in Range(RemoteStream) : Count(initial_vids, y) >= 2

-----------------------------------------------------------------------------
(* Properties of the synchroniser *)

SyncLinks == {e \in sync_dir.ents : e.kind = "link"}
ResolvedItems == {it \in Range(sync_videos) : it.path # None}
PrettyNames == {pretty_name(it.info, it.path, sync_locale) : it \in ResolvedItems}

\* C1: a second call of create_symlinks_locale with the same directory,
\* mapping and locale makes no unlink and no symlink call.
C1_SecondCallMutatesNothing ==
    sync_pc = "resynced" =>
        /\ sync_last.nunlink = 0
        /\ sync_last.ncreate = 0
        /\ ~sync_last.mkdir

\* C7: when create_symlinks_locale returns, the names of the symlinks of the
\* directory are exactly the pretty names of the entries that have a raw
\* path, every link resolves to an existing file, and that file is the raw
\* file of a current entry.
C7_ExactLinkSet ==
    (sync_pc = "synced" /\ ~sync_last.raised) =>
        /\ Names(SyncLinks) = PrettyNames
        /\ \A e \in SyncLinks : e.target \in SyncRawPaths
        /\ \A e \in SyncLinks : e.target \in {it.path : it \in ResolvedItems}

\* C8: after a sync, one record's title changes and sync runs again: exactly
\* the old-named link of that record is removed, exactly one link with the
\* new name is created and resolves to the same raw file, and every other
\* entry of the directory is as before.
C8_RenameTouchesOneLink ==
    (sync_pc = "renamed" /\ sync_retitled.path # None) =>
        LET old_name == pretty_name(sync_retitled.info, sync_retitled.path, sync_locale)
            now == CHOOSE it \in Range(sync_videos) : it.info.vid = sync_retitled.info.vid
            new_name == pretty_name(now.info, now.path, sync_locale)
        IN /\ ~sync_last.raised
           /\ sync_last.nunlink = 1 /\ sync_last.unlinked = {old_name}
           /\ sync_last.ncreate = 1 /\ sync_last.created = {new_name}
           /\ Link(new_name, now.path) \in sync_dir.ents
           /\ \A e \in sync_before.ents : e.name # old_name => e \in sync_dir.ents
           /\ \A e \in sync_dir.ents : e.name # new_name => e \in sync_before.ents

\* C14: for an entry that no valid link serves and that is the only one to
\* derive its pretty name, when something occupies dir/pretty_name before
\* the call (a link to another raw file, a broken link, a regular file or a
\* directory), the call ends without an error and dir/pretty_name is a link
\* to the entry's raw file.
C14_OccupiedNameReplaced ==
    sync_pc = "synced" =>
        \A it \in ResolvedItems :
            LET name == pretty_name(it.info, it.path, sync_locale)
            IN (/\ name \notin find_video_link(sync_before.ents, it.path, SyncRawPaths)
                /\ name \in Names(sync_before.ents)
                /\ \A o \in ResolvedItems :
                      o # it => pretty_name(o.info, o.path, sync_locale) # name)
               => /\ ~sync_last.raised
                  /\ Link(name, it.path) \in sync_dir.ents

-----------------------------------------------------------------------------
(* Properties of a run *)

\* local_db is still the list that was read: "Update db" has not run
DbAsLoaded == run_pc \in {"resolve", "download", "sync", "emit", "updatedb"}
                \/ (run_pc = "aborted" /\ abort_cause # "TypeError")

DbHit(vid) == \E j \in DOMAIN local_db : local_db[j].vid = vid
DbFirst(vid) ==
    local_db[CHOOSE j \in DOMAIN local_db :
                /\ local_db[j].vid = vid
                /\ \A k \in 1..(j - 1) : local_db[k].vid # vid]

\* the iterations of the resolver that found no database record and whose
\* remote lookup failed
Unresolved == {i \in DOMAIN resolved :
                  ~DbHit(resolved[i].vid) /\ resolved[i].attempted /\ ~resolved[i].ok}

\* the entry of the mapping for an identifier, and its position
EntryPos(vid) == CHOOSE k \in DOMAIN vid_path : vid_path[k].info.vid = vid
EntryOf(vid) == vid_path[EntryPos(vid)]

\* s occurs in line
Occurs(s, line) == \E i \in 1..(Len(line) - Len(s) + 1) : SubSeq(line, i, i + Len(s) - 1) = s
InPlaylist(vid) == \E n \in DOMAIN m3u : Occurs(vid, m3u[n])

Emitted == run_pc \in {"updatedb", "done"} /\ m3u_args.given

C5_ResolverPrecedence ==
    DbAsLoaded =>
        /\ \A i \in DOMAIN resolved :
              LET r == resolved[i]
              IN /\ r.vid = vids[i]
                 /\ (r.attempted <=> (~DbHit(r.vid) \/ update_all))
                 /\ (r.ok => r.attempted /\ ~r.answer.missing)
                 /\ r.info = IF r.ok THEN r.answer
                             ELSE IF DbHit(r.vid) THEN DbFirst(r.vid)
                             ELSE VideoInfo(r.vid, [days |-> 0, seconds |-> 0], r.vid, {}, TRUE)
        /\ (run_pc # "resolve" => Len(resolved) = Len(vids))
        /\ (run_pc = "resolve" => Len(resolved) = idx - 1)

\* a failed lookup followed by a successful one, and a database record
\* refreshed because update-all is set
C5_Witness ==
    /\ run_pc = "download"
    /\ \E i, j \in DOMAIN resolved : i < j /\ resolved[i].attempted /\ ~resolved[i].ok
                                      /\ resolved[j].ok
    /\ \E i \in DOMAIN resolved : DbHit(resolved[i].vid) /\ resolved[i].ok

Last(s) == s[Len(s)]

\* C6: when the downloader exits non-zero for an entry, the entry's path
\* stays none and the loop goes on with the next entry; every entry of the
\* mapping gets its iteration, and a run that ends has synchronised every
\* directory, written the playlist if one is asked for and written the
\* database if update-db is set.
C6_FailureState ==
    /\ \A k \in DOMAIN dl_log : dl_log[k] = "failed" => vid_path[k].path = None
    /\ (run_pc \in {"sync", "emit", "updatedb", "done"} => Len(dl_log) = Len(vid_path))
    /\ (run_pc = "done" =>
          /\ Len(sync_log) = 1 + Len(args_locale)
          /\ (m3u_args.given => m3u # NoFile)
          /\ (update_db => db_written.exists))
C6_FailureStep ==
    (/\ Len(dl_runs') = Len(dl_runs) + 1
     /\ Last(dl_runs').exe
     /\ Last(dl_runs').exit # 0)
    => /\ run_pc' = "download"
       /\ idx' = idx + 1
       /\ vid_path'[idx].path = None
       /\ raw' = raw
C6_DownloadFailureIsolated == [](C6_FailureState) /\ [][C6_FailureStep]_vars

\* a run that ended after a failed download followed by a successful one,
\* with the playlist and the database written
C6_Witness ==
    /\ run_pc = "done"
    /\ \E k, j \in DOMAIN dl_log : k < j /\ dl_log[k] = "failed" /\ dl_log[j] = "downloaded"
    /\ m3u_args.given /\ m3u # NoFile
    /\ update_db /\ db_written.exists

\* the text of the written playlist, line by line
PlaylistText == readlines(Flatten(m3u))

HasPath(item) == item.path # None
\* the entries of the mapping that have a path, in the mapping's order
WithPath == SelectSeq(vid_path, HasPath)

\* normpath(join(base, rel)) of an absolute base
RECURSIVE ApplyParts(_, _)
ApplyParts(stack, parts) ==
    IF parts = <<>> THEN stack
    ELSE LET h == Head(parts)
         IN ApplyParts(IF h = <<".", ".">> THEN SubSeq(stack, 1, Len(stack) - 1)
                       ELSE IF h = <<".">> THEN stack
                       ELSE Append(stack, h),
                       Tail(parts))
ResolveFrom(base, rel) == <<"/">> \o JoinSlash(ApplyParts(SplitSlash(base), SplitSlash(rel)))

\* the path a path line of the written playlist stands for
PathOfLine(line) ==
    LET p == SubSeq(line, 1, Len(line) - 1)
    IN IF m3u_args.url THEN unquote(p) ELSE p

\* C11: the written playlist is the header line followed, for each entry
\* with a path and in the mapping's order, by one info line and one path
\* line; the path is the entry's absolute path when no base path is given,
\* else a relative path that leads from the base path to the entry's file;
\* the entries without a path add no line.
C11_EmissionStructure ==
    Emitted =>
        /\ Len(PlaylistText) = 1 + 2 * Len(WithPath)
        /\ PlaylistText[1] = ExtM3U
        /\ \A k \in DOMAIN WithPath :
              LET info == PlaylistText[2 * k]
                  line == PlaylistText[2 * k + 1]
                  p == PathOfLine(line)
              IN /\ Len(info) > Len(ExtInf)
                 /\ SubSeq(info, 1, Len(ExtInf)) = ExtInf
                 /\ Last(info) = "\n"
                 /\ Last(line) = "\n"
                 /\ line[1] # "#"
                 /\ IF m3u_args.basepath = None
                    THEN p[1] = "/" /\ p = WithPath[k].path
                    ELSE p[1] # "/" /\ ResolveFrom(m3u_args.basepath, p) = WithPath[k].path

\* a playlist written url-encoded with paths relative to a directory beside
\* the raw directory, from a mapping whose first entry has no path and whose
\* second has one
C11_Witness ==
    /\ Emitted
    /\ m3u_args.basepath = <<"/","m","/","p">>
    /\ m3u_args.url
    /\ Len(vid_path) = 2
    /\ vid_path[1].path = None
    /\ vid_path[2].path # None
    /\ Len(PlaylistText) = 3

\* C12: the info line of every emitted entry is "#EXTINF:<d>,<title>" with d
\* the whole duration of the record in seconds, days included.
C12_InfoLineDuration ==
    Emitted =>
        \A k \in DOMAIN WithPath :
            2 * k \in DOMAIN PlaylistText =>
                LET v == WithPath[k].info
                    d == v.duration.days * SecondsPerDay + v.duration.seconds
                IN PlaylistText[2 * k] =
                      ExtInf \o ToDecimal(d) \o <<",">> \o title_of(v, m3u_args.locale) \o NL

\* the ids of a list of records, in order
IdsOf(items) == [j \in DOMAIN items |-> items[j].id]
VidsOf(db) == [j \in DOMAIN db |-> db[j].vid]

\* C13: when the loaded database has no two records with the same id, the
\* database that the update step persists has no two records with the same
\* id and is the export of records none of which is a placeholder.
C13_UpdateStep ==
    (/\ run_pc = "updatedb"
     /\ db_written'.exists
     /\ ~HasRepeat(VidsOf(local_db)))
    => /\ ~HasRepeat(IdsOf(db_written'.items))
       /\ Len(db_written'.items) = Len(local_db')
       /\ \A j \in DOMAIN local_db' :
             /\ ~local_db'[j].missing
             /\ db_written'.items[j].id = local_db'[j].vid
C13_DatabaseInvariant == [][C13_UpdateStep]_vars

\* a database of two records was persisted by a run whose mapping holds a
\* placeholder: a record was appended to the loaded one, the placeholder
\* was skipped
C13_Witness ==
    /\ run_pc = "done"
    /\ update_db
    /\ db_written.exists
    /\ Len(db_written.items) = 2
    /\ \E k \in DOMAIN vid_path : vid_path[k].info.missing

\* C15: when the raw directory holds no file of the entry's identifier and
\* the downloader exits zero leaving the one file <id>.<ext>, the file is in
\* the raw directory afterwards, it is the entry's path, and the loop goes
\* on with the next entry.
C15_DownloadStep ==
    LET vid == vid_path[idx].info.vid
    IN (/\ Len(dl_runs') = Len(dl_runs) + 1
        /\ Last(dl_runs').exe
        /\ Last(dl_runs').exit = 0
        /\ Last(dl_runs').files = {RawName(vid)}
        /\ \A e \in raw : SplitDot0(e.name) # vid)
       => /\ RawName(vid) \in {e.name : e \in raw'}
          /\ vid_path'[idx].path = RawPath(RawName(vid))
          /\ run_pc' = "download"
          /\ idx' = idx + 1
C15_DownloadYieldsPath == [][C15_DownloadStep]_vars

\* C16: the identifiers the next run reads from the playlist this run wrote
\* are the identifiers of the entries that had a path, in the mapping's
\* order, whatever the base path and the encoding.
C16_PlaylistRoundTrip ==
    (run_pc = "done" /\ merge_pc = "extend") =>
        playlist_vids = [k \in DOMAIN WithPath |-> WithPath[k].info.vid]

\* a url-encoded playlist with relative paths, whose first entry was
\* downloaded in this run, read back by the next run
C16_Witness ==
    /\ run_pc = "done"
    /\ merge_pc = "extend"
    /\ m3u_args.url
    /\ m3u_args.basepath = <<"/","m","/","p">>
    /\ Len(dl_log) = 2
    /\ dl_log[1] = "downloaded"
    /\ playlist_vids = <<idB, idA>>

\* C9: no regular file that was in the raw directory is overwritten, moved
\* or deleted during the run.
C9_NoRawFileLost == lost = {}

-----------------------------------------------------------------------------
(* Properties of the database round trip *)

\* C10: from_local(export_db(r)) has the id, the duration, the default title
\* and the locale map of r, and is not a placeholder.
C10_RoundTrip ==
    db_pc = "loaded" =>
        /\ db_back.vid = db_rec.vid
        /\ db_back.duration = db_rec.duration
        /\ db_back.title = db_rec.title
        /\ db_back.locale_title = db_rec.locale_title
        /\ db_back.missing = FALSE

====
